---- MODULE Spec2Model ----
(***************************************************************************)
(* A model of the three figure classifiers of pdf-image-classifier:        *)
(*   FigureClassifier      (figure_classifier.py)  rule-based decision list *)
(*   FreeFigureClassifier  (free_classifier.py)    caption keywords         *)
(*   AIFigureClassifier    (ai_classifier.py)      generative-vision call   *)
(*                                                                         *)
(* Numbers.  Python floats are modelled by integers in hundredths: a       *)
(* feature 0.3 is 30, a confidence_score 0.8 is 80.  A confidence put in a *)
(* result dictionary is kept in hundredths as well, so the 80.0 of         *)
(* FigureClassifier is 8000 and the 0.95 of FreeFigureClassifier is 95.    *)
(*                                                                         *)
(* Text.  Python strings are TLA+ strings; Len, SubSeq and \o act on them  *)
(* as len, slicing and + do.  A character outside ASCII is written as its  *)
(* code point, <U+1F4CA>.                                                  *)
(***************************************************************************)
EXTENDS Integers, Sequences, FiniteSets, TLC

VARIABLES
    fig_pc,                  \* FigureClassifier: where each caller's classify_figure is
    fig_features,            \* the caller's local `features`
    fig_probe,               \* what _is_scatter_plot did in this call ("unused" if not run)
    fig_category,            \* the caller's local `category`
    fig_error,               \* the exception caught by classify_figure ("" if none)
    fig_result,              \* the dictionary returned to the caller
    fig_confidence_score     \* self.confidence_score of the FigureClassifier instance

fig_vars == <<fig_pc, fig_features, fig_probe, fig_category, fig_error,
              fig_result, fig_confidence_score>>

VARIABLES
    free_pc,                 \* where classify_figure is
    free_image,              \* the image passed in
    free_http,               \* what requests.post did in this call
    free_posts,              \* the requests.post calls made in this call
    free_description,        \* the local `description`
    free_source,             \* "remote": the caption of the service; "local": _analyze_image_locally
    free_path,               \* the branch that built the result: keywords, visual, failure
    free_result,             \* the dictionary returned to the caller
    free_confidence_score    \* self.confidence_score of the FreeFigureClassifier instance

free_vars == <<free_pc, free_image, free_http, free_posts, free_description,
               free_source, free_path, free_result, free_confidence_score>>

VARIABLES
    ai_pc,                   \* AIFigureClassifier: where classify_figure is
    ai_image,                \* the image passed in
    ai_key_index,            \* call_gemini_with_fallback: the position of `for key in API_KEYS`
    ai_attempts,             \* the calls of generate_content made in this call, in order
    ai_response,             \* the local `response`
    ai_result,               \* the dictionary returned to the caller
    ai_raised,               \* the exception classify_figure let through ("" if none)
    gemini_cache             \* st.cache_data of call_gemini_with_fallback, by image

ai_vars == <<ai_pc, ai_image, ai_key_index, ai_attempts, ai_response, ai_result,
             ai_raised, gemini_cache>>

vars == <<fig_vars, free_vars, ai_vars>>

----------------------------------------------------------------------------
(* Strings                                                                 *)

UpperLetters == "ABCDEFGHIJKLMNOPQRSTUVWXYZ"
LowerLetters == "abcdefghijklmnopqrstuvwxyz"

CharAt(s, i) == SubSeq(s, i, i)

\* the lower-case and the upper-case form of each letter
ToLower ==
    [ch \in {CharAt(UpperLetters, i) : i \in 1..26} |->
        CharAt(LowerLetters, CHOOSE i \in 1..26 : CharAt(UpperLetters, i) = ch)]
ToUpper ==
    [ch \in {CharAt(LowerLetters, i) : i \in 1..26} |->
        CharAt(UpperLetters, CHOOSE i \in 1..26 : CharAt(LowerLetters, i) = ch)]

IsUpper(ch) == ch \in DOMAIN ToLower
IsLower(ch) == ch \in DOMAIN ToUpper

LowerChar(ch) == IF IsUpper(ch) THEN ToLower[ch] ELSE ch
UpperChar(ch) == IF IsLower(ch) THEN ToUpper[ch] ELSE ch

\* str.lower()
RECURSIVE Lower(_)
Lower(s) ==
    IF s = "" THEN ""
    ELSE LowerChar(CharAt(s, 1)) \o Lower(SubSeq(s, 2, Len(s)))

\* str.replace(old, new) for one-character old and new
RECURSIVE ReplaceChar(_, _, _)
ReplaceChar(s, old, new) ==
    IF s = "" THEN ""
    ELSE (IF CharAt(s, 1) = old THEN new ELSE CharAt(s, 1))
         \o ReplaceChar(SubSeq(s, 2, Len(s)), old, new)

\* str.title(): a letter that follows a letter is lowered, any other letter is raised
RECURSIVE TitleFrom(_, _)
TitleFrom(s, afterLetter) ==
    IF s = "" THEN ""
    ELSE LET ch == CharAt(s, 1)
             letter == IsUpper(ch) \/ IsLower(ch)
         IN  (IF ~letter THEN ch
              ELSE IF afterLetter THEN LowerChar(ch) ELSE UpperChar(ch))
             \o TitleFrom(SubSeq(s, 2, Len(s)), letter)

Title(s) == TitleFrom(s, FALSE)

\* `w in s`
Contains(s, w) ==
    \E i \in 1..(Len(s) - Len(w) + 1) : SubSeq(s, i, i + Len(w) - 1) = w

\* s.startswith(w)
StartsWith(s, w) == Len(w) <= Len(s) /\ SubSeq(s, 1, Len(w)) = w

----------------------------------------------------------------------------
(* FigureClassifier                                                        *)

\* thresholds of _rule_based_classification and _is_map_like, in hundredths
CircleMin == 30
RectangleBarMin == 40
TextBarMax == 30
LineMin == 30
RectangleLineMax == 20
TextTableMin == 40
EdgeFlowMin == 20
RectangleFlowMin == 20
EdgePhotoMax == 10
ColorPhotoMin == 10
SymmetryMin == 70
MapColorMin == 5
MapEdgeMin == 10
MapEdgeMax == 30
MapSymmetryMax == 30

\* the confidence_score values assigned, in hundredths
BaselineConfidence == 50
PieConfidence == 80
BarConfidence == 70
LineConfidence == 70
TableConfidence == 60
FlowConfidence == 60
PhotoConfidence == 60
ScientificConfidence == 60
ScatterConfidence == 70
MapConfidence == 60
DefaultConfidence == 40
ErrorConfidence == 3000

\* The callers of one FigureClassifier instance.
Callers == {1, 2}

\* The values _extract_features may measure, around the thresholds.
FeatureVectors ==
    [circle_ratio        : {30, 31},
     rectangle_ratio     : {19, 20, 40, 41},
     text_ratio          : {29, 30, 40, 41},
     line_density        : {30, 31},
     edge_density        : {9, 10, 20, 21, 30},
     color_diversity     : {5, 10, 11},
     symmetry_horizontal : {29, 30, 70, 71},
     symmetry_vertical   : {29, 30, 70, 71}]

\* A vector that matches no rule before the scatter-plot probe, and the vectors that
\* differ from it by matching rule 1, rule 2 or rule 4: the images of two callers
\* that share one instance.
PlainVector ==
    [circle_ratio |-> 30, rectangle_ratio |-> 19, text_ratio |-> 29,
     line_density |-> 30, edge_density |-> 10, color_diversity |-> 5,
     symmetry_horizontal |-> 29, symmetry_vertical |-> 29]

SharedInstanceVectors ==
    {PlainVector,
     [PlainVector EXCEPT !.circle_ratio = 31],
     [PlainVector EXCEPT !.rectangle_ratio = 41],
     [PlainVector EXCEPT !.text_ratio = 41]}

NoFeatures ==
    [circle_ratio |-> -1, rectangle_ratio |-> -1, text_ratio |-> -1,
     line_density |-> -1, edge_density |-> -1, color_diversity |-> -1,
     symmetry_horizontal |-> -1, symmetry_vertical |-> -1]

\* str(e) of the exceptions the numeric libraries raise
Errors == {"Invalid number of channels in input image", "division by zero"}

\* _is_scatter_plot: more than 20 small circles, not more, or an exception
ProbeOutcomes == {"hit", "miss", "raise"}

NoResult == [returned |-> FALSE]

_map_to_label(category) ==
    CASE category = "bar_chart" -> "<U+1F4CA> Bar Chart"
      [] category = "line_graph" -> "<U+1F4C8> Line Graph"
      [] category = "pie_chart" -> "<U+1F7E2> Pie Chart"
      [] category = "timeline" -> "<U+23F0> Timeline"
      [] category = "photograph" -> "<U+1F4F7> Photograph"
      [] category = "table" -> "<U+1F4CB> Table"
      [] category = "scatter_plot" -> "<U+1F535> Scatter Plot"
      [] category = "flowchart" -> "<U+1F4D0> Flowchart"
      [] category = "scientific_diagram" -> "<U+1F4D0> Scientific Diagram"
      [] category = "map" -> "<U+1F5FA><U+FE0F> Map"
      [] category = "diagram" -> "<U+1F4D0> Other Diagram"
      [] OTHER -> "<U+1F4D0> Other Diagram"

_get_brief_description(category) ==
    CASE category = "bar_chart" -> "Vertical or horizontal bars used to compare values."
      [] category = "line_graph" -> "Continuous line to show trends over time or data."
      [] category = "pie_chart" -> "Circular chart divided into slices."
      [] category = "timeline" -> "Horizontal layout showing chronological events."
      [] category = "photograph" -> "High color and texture variation, likely image capture."
      [] category = "table" -> "Grid of cells with rows and columns of text."
      [] category = "scatter_plot" -> "Many small dots or shapes scattered across axes."
      [] category = "flowchart" -> "Connected shapes representing steps or decisions."
      [] category = "scientific_diagram" -> "Symmetric, structured layout with labeled parts."
      [] category = "map" -> "Irregular shapes and colors suggest geographic layout."
      [] category = "diagram" -> "Generic illustration, often grayscale or text-heavy."
      [] OTHER -> "Grayscale content, likely diagram or text"

_is_map_like(features) ==
    /\ features.color_diversity > MapColorMin
    /\ MapEdgeMin < features.edge_density
    /\ features.edge_density < MapEdgeMax
    /\ features.symmetry_horizontal < MapSymmetryMax
    /\ features.symmetry_vertical < MapSymmetryMax

\* Whether the decision list gets as far as calling _is_scatter_plot.
ReachesProbe(features) ==
    /\ ~(features.circle_ratio > CircleMin)
    /\ ~(features.rectangle_ratio > RectangleBarMin /\ features.text_ratio < TextBarMax)
    /\ ~(features.line_density > LineMin /\ features.rectangle_ratio < RectangleLineMax)
    /\ ~(features.text_ratio > TextTableMin)
    /\ ~(features.edge_density > EdgeFlowMin /\ features.rectangle_ratio > RectangleFlowMin)
    /\ ~(features.edge_density < EdgePhotoMax /\ features.color_diversity > ColorPhotoMin)
    /\ ~(features.symmetry_horizontal > SymmetryMin \/ features.symmetry_vertical > SymmetryMin)

\* _rule_based_classification with the bar_chart rule tried before the pie_chart rule
_rule_based_classification_bar_first(features, probe) ==
    IF features.rectangle_ratio > RectangleBarMin /\ features.text_ratio < TextBarMax
    THEN [category |-> "bar_chart", confidence_score |-> BarConfidence]
    ELSE IF features.circle_ratio > CircleMin
    THEN [category |-> "pie_chart", confidence_score |-> PieConfidence]
    ELSE IF features.line_density > LineMin /\ features.rectangle_ratio < RectangleLineMax
    THEN [category |-> "line_graph", confidence_score |-> LineConfidence]
    ELSE IF features.text_ratio > TextTableMin
    THEN [category |-> "table", confidence_score |-> TableConfidence]
    ELSE IF features.edge_density > EdgeFlowMin /\ features.rectangle_ratio > RectangleFlowMin
    THEN [category |-> "flowchart", confidence_score |-> FlowConfidence]
    ELSE IF features.edge_density < EdgePhotoMax /\ features.color_diversity > ColorPhotoMin
    THEN [category |-> "photograph", confidence_score |-> PhotoConfidence]
    ELSE IF features.symmetry_horizontal > SymmetryMin \/ features.symmetry_vertical > SymmetryMin
    THEN [category |-> "scientific_diagram", confidence_score |-> ScientificConfidence]
    ELSE IF probe = "hit"
    THEN [category |-> "scatter_plot", confidence_score |-> ScatterConfidence]
    ELSE IF _is_map_like(features)
    THEN [category |-> "map", confidence_score |-> MapConfidence]
    ELSE [category |-> "diagram", confidence_score |-> DefaultConfidence]

\* _rule_based_classification after the baseline is set: the category returned and
\* the confidence_score left behind.  probe is the outcome of _is_scatter_plot, read
\* only when the first seven rules fail; probe = "raise" is handled by the caller.
_rule_based_classification(features, probe) ==
    IF features.circle_ratio > CircleMin
    THEN [category |-> "pie_chart", confidence_score |-> PieConfidence]
    ELSE IF features.rectangle_ratio > RectangleBarMin /\ features.text_ratio < TextBarMax
    THEN [category |-> "bar_chart", confidence_score |-> BarConfidence]
    ELSE IF features.line_density > LineMin /\ features.rectangle_ratio < RectangleLineMax
    THEN [category |-> "line_graph", confidence_score |-> LineConfidence]
    ELSE IF features.text_ratio > TextTableMin
    THEN [category |-> "table", confidence_score |-> TableConfidence]
    ELSE IF features.edge_density > EdgeFlowMin /\ features.rectangle_ratio > RectangleFlowMin
    THEN [category |-> "flowchart", confidence_score |-> FlowConfidence]
    ELSE IF features.edge_density < EdgePhotoMax /\ features.color_diversity > ColorPhotoMin
    THEN [category |-> "photograph", confidence_score |-> PhotoConfidence]
    ELSE IF features.symmetry_horizontal > SymmetryMin \/ features.symmetry_vertical > SymmetryMin
    THEN [category |-> "scientific_diagram", confidence_score |-> ScientificConfidence]
    ELSE IF probe = "hit"
    THEN [category |-> "scatter_plot", confidence_score |-> ScatterConfidence]
    ELSE IF _is_map_like(features)
    THEN [category |-> "map", confidence_score |-> MapConfidence]
    ELSE [category |-> "diagram", confidence_score |-> DefaultConfidence]

\* round(x, 1) of a non-negative x given in hundredths
Round1(x) == ((x + 5) \div 10) * 10

\* the dictionary classify_figure builds on its normal path
FigureResult(category, confidence_score) ==
    [type |-> _map_to_label(category),
     confidence |-> Round1(confidence_score * 100),
     description |-> _get_brief_description(category),
     reasoning |-> "Rule-based decision based on visual features: " \o category]

\* the except branch of classify_figure with the exception left out of the reasoning
FigureErrorResult_no_error(e) ==
    [type |-> "<U+1F4D0> Other Diagram",
     confidence |-> ErrorConfidence,
     description |-> "Grayscale content, likely diagram or text",
     reasoning |-> "Error during classification"]

\* the dictionary classify_figure builds in its except branch
FigureErrorResult(e) ==
    [type |-> "<U+1F4D0> Other Diagram",
     confidence |-> ErrorConfidence,
     description |-> "Grayscale content, likely diagram or text",
     reasoning |-> "Error during classification: " \o e]

FigInit ==
    /\ fig_pc = [c \in Callers |-> "idle"]
    /\ fig_features = [c \in Callers |-> NoFeatures]
    /\ fig_probe = [c \in Callers |-> "unused"]
    /\ fig_category = [c \in Callers |-> ""]
    /\ fig_error = [c \in Callers |-> ""]
    /\ fig_result = [c \in Callers |-> NoResult]
    /\ fig_confidence_score = 0

\* classify_figure is entered and _extract_features returns a vector
FigExtract(c) ==
    /\ fig_pc[c] = "idle"
    /\ \E f \in FeatureVectors :
          fig_features' = [fig_features EXCEPT ![c] = f]
    /\ fig_pc' = [fig_pc EXCEPT ![c] = "rules"]
    /\ fig_probe' = [fig_probe EXCEPT ![c] = "unused"]
    /\ fig_category' = [fig_category EXCEPT ![c] = ""]
    /\ fig_error' = [fig_error EXCEPT ![c] = ""]
    /\ fig_result' = [fig_result EXCEPT ![c] = NoResult]
    /\ UNCHANGED fig_confidence_score
    /\ UNCHANGED <<free_vars, ai_vars>>

\* classify_figure is entered by one of several callers of the same instance and
\* _extract_features returns one of `vectors`
FigExtractFrom(c, vectors) ==
    /\ fig_pc[c] = "idle"
    /\ \E f \in vectors :
          fig_features' = [fig_features EXCEPT ![c] = f]
    /\ fig_pc' = [fig_pc EXCEPT ![c] = "rules"]
    /\ fig_probe' = [fig_probe EXCEPT ![c] = "unused"]
    /\ fig_category' = [fig_category EXCEPT ![c] = ""]
    /\ fig_error' = [fig_error EXCEPT ![c] = ""]
    /\ fig_result' = [fig_result EXCEPT ![c] = NoResult]
    /\ UNCHANGED fig_confidence_score
    /\ UNCHANGED <<free_vars, ai_vars>>

\* classify_figure is entered and _extract_features raises
FigExtractRaises(c) ==
    /\ fig_pc[c] = "idle"
    /\ \E e \in Errors :
          fig_error' = [fig_error EXCEPT ![c] = e]
    /\ fig_pc' = [fig_pc EXCEPT ![c] = "except"]
    /\ fig_features' = [fig_features EXCEPT ![c] = NoFeatures]
    /\ fig_probe' = [fig_probe EXCEPT ![c] = "unused"]
    /\ fig_category' = [fig_category EXCEPT ![c] = ""]
    /\ fig_result' = [fig_result EXCEPT ![c] = NoResult]
    /\ UNCHANGED fig_confidence_score
    /\ UNCHANGED <<free_vars, ai_vars>>

\* _rule_based_classification, first statement: self.confidence_score = 0.5
FigRuleBaseline(c) ==
    /\ fig_pc[c] = "rules"
    /\ fig_confidence_score' = BaselineConfidence
    /\ fig_pc' = [fig_pc EXCEPT ![c] = "decide"]
    /\ UNCHANGED <<fig_features, fig_probe, fig_category, fig_error, fig_result>>
    /\ UNCHANGED <<free_vars, ai_vars>>

\* _rule_based_classification, the decision list, when no call in it raises
FigRuleDecide(c) ==
    /\ fig_pc[c] = "decide"
    /\ \E probe \in ProbeOutcomes \ {"raise"} :
          LET ran == IF ReachesProbe(fig_features[c]) THEN probe ELSE "unused"
              r == _rule_based_classification(fig_features[c], ran)
          IN  /\ fig_probe' = [fig_probe EXCEPT ![c] = ran]
              /\ fig_category' = [fig_category EXCEPT ![c] = r.category]
              /\ fig_confidence_score' = r.confidence_score
    /\ fig_pc' = [fig_pc EXCEPT ![c] = "build"]
    /\ UNCHANGED <<fig_features, fig_error, fig_result>>
    /\ UNCHANGED <<free_vars, ai_vars>>

\* _rule_based_classification, the decision list, when _is_scatter_plot raises
FigProbeRaises(c) ==
    /\ fig_pc[c] = "decide"
    /\ ReachesProbe(fig_features[c])
    /\ \E e \in Errors :
          fig_error' = [fig_error EXCEPT ![c] = e]
    /\ fig_probe' = [fig_probe EXCEPT ![c] = "raise"]
    /\ fig_pc' = [fig_pc EXCEPT ![c] = "except"]
    /\ UNCHANGED <<fig_features, fig_category, fig_result, fig_confidence_score>>
    /\ UNCHANGED <<free_vars, ai_vars>>

\* classify_figure, the return statement of the try block
FigBuild(c) ==
    /\ fig_pc[c] = "build"
    /\ fig_result' = [fig_result EXCEPT ![c] =
                         FigureResult(fig_category[c], fig_confidence_score)]
    /\ fig_pc' = [fig_pc EXCEPT ![c] = "done"]
    /\ UNCHANGED <<fig_features, fig_probe, fig_category, fig_error, fig_confidence_score>>
    /\ UNCHANGED <<free_vars, ai_vars>>

\* classify_figure, the except branch
FigExcept(c) ==
    /\ fig_pc[c] = "except"
    /\ fig_result' = [fig_result EXCEPT ![c] = FigureErrorResult(fig_error[c])]
    /\ fig_pc' = [fig_pc EXCEPT ![c] = "done"]
    /\ UNCHANGED <<fig_features, fig_probe, fig_category, fig_error, fig_confidence_score>>
    /\ UNCHANGED <<free_vars, ai_vars>>

\* the caller takes the result; the call's locals are gone
FigReturn(c) ==
    /\ fig_pc[c] = "done"
    /\ fig_pc' = [fig_pc EXCEPT ![c] = "idle"]
    /\ fig_features' = [fig_features EXCEPT ![c] = NoFeatures]
    /\ fig_probe' = [fig_probe EXCEPT ![c] = "unused"]
    /\ fig_category' = [fig_category EXCEPT ![c] = ""]
    /\ fig_error' = [fig_error EXCEPT ![c] = ""]
    /\ fig_result' = [fig_result EXCEPT ![c] = NoResult]
    /\ UNCHANGED fig_confidence_score
    /\ UNCHANGED <<free_vars, ai_vars>>

----------------------------------------------------------------------------
(* FreeFigureClassifier                                                    *)

\* self.figure_categories, in the order of the dictionary
figure_categories ==
    <<
      [key |-> "bar_chart", words |-> <<"bar chart", "bar graph", "column chart", "histogram", "bars">>],
      [key |-> "pie_chart", words |-> <<"pie chart", "pie graph", "circular chart", "donut chart">>],
      [key |-> "line_graph", words |-> <<"line chart", "line graph", "trend", "curve", "time series">>],
      [key |-> "scatter_plot", words |-> <<"scatter plot", "scatter chart", "dots", "points", "correlation">>],
      [key |-> "histogram", words |-> <<"histogram", "distribution", "frequency", "bins">>],
      [key |-> "box_plot", words |-> <<"box plot", "boxplot", "whisker", "quartile">>],
      [key |-> "heatmap", words |-> <<"heatmap", "heat map", "intensity", "color map", "gradient">>],
      [key |-> "flowchart", words |-> <<"flowchart", "flow chart", "process", "workflow", "diagram">>],
      [key |-> "organizational_chart", words |-> <<"organizational chart", "org chart", "hierarchy", "structure">>],
      [key |-> "network_diagram", words |-> <<"network", "graph", "nodes", "connections", "tree">>],
      [key |-> "scientific_diagram", words |-> <<"molecule", "chemical", "formula", "scientific", "laboratory">>],
      [key |-> "medical_diagram", words |-> <<"anatomy", "medical", "body", "organ", "health">>],
      [key |-> "engineering_diagram", words |-> <<"circuit", "schematic", "technical", "blueprint", "engineering">>],
      [key |-> "map", words |-> <<"map", "geographic", "location", "street", "geography", "satellite">>],
      [key |-> "floor_plan", words |-> <<"floor plan", "blueprint", "layout", "room", "building">>],
      [key |-> "timeline", words |-> <<"timeline", "chronology", "sequence", "history", "events">>],
      [key |-> "table", words |-> <<"table", "grid", "rows", "columns", "data", "spreadsheet">>],
      [key |-> "infographic", words |-> <<"infographic", "information", "visual", "statistics">>],
      [key |-> "photograph", words |-> <<"photo", "picture", "image", "real", "camera", "scene">>],
      [key |-> "screenshot", words |-> <<"screenshot", "screen", "interface", "software", "application">>],
      [key |-> "logo", words |-> <<"logo", "brand", "symbol", "emblem", "company">>],
      [key |-> "chart_other", words |-> <<"chart", "graph", "visualization", "data">>],
      [key |-> "diagram_other", words |-> <<"diagram", "illustration", "drawing", "figure">>],
      [key |-> "unknown", words |-> <<"unclear", "unknown", "indeterminate">>]
    >>

\* self.figure_emojis
figure_emojis ==
    [
     bar_chart |-> "<U+1F4CA>",
     pie_chart |-> "<U+1F967>",
     line_graph |-> "<U+1F4C8>",
     scatter_plot |-> "<U+1F4C9>",
     histogram |-> "<U+1F4CA>",
     box_plot |-> "<U+1F4E6>",
     heatmap |-> "<U+1F321><U+FE0F>",
     flowchart |-> "<U+1F501>",
     organizational_chart |-> "<U+1F5C2><U+FE0F>",
     network_diagram |-> "<U+1F517>",
     scientific_diagram |-> "<U+1F9EA>",
     medical_diagram |-> "<U+1FAC0>",
     engineering_diagram |-> "<U+1F4D0>",
     map |-> "<U+1F5FA><U+FE0F>",
     floor_plan |-> "<U+1F3E0>",
     timeline |-> "<U+1F552>",
     table |-> "<U+1F4CB>",
     infographic |-> "<U+1F4CC>",
     photograph |-> "<U+1F4F7>",
     screenshot |-> "<U+1F5A5><U+FE0F>",
     logo |-> "<U+1F6A9>",
     chart_other |-> "<U+1F522>",
     diagram_other |-> "<U+1F4DD>",
     unknown |-> "<U+2753>"
    ]

\* thresholds on width / height and on unique colors / pixels, in hundredths
WideMin == 150
TallMax == 70
ColorfulMin == 10
SimpleMax == 1
ChartBandLow == 80
ChartBandHigh == 150
VeryWideMin == 200
SquareBandLow == 80
SquareBandHigh == 120
\* thresholds of _analyze_image_locally on edge density (hundredths) and brightness
DetailedEdgeMin == 20
ChartEdgeMin == 10
BrightMin == 200
DarkMax == 100

\* the bonuses of _enhance_classification_with_analysis
ChartBandBonus == 5
VeryWideBonus == 8
ColorfulBonus == 6
FlatBonus == 4

\* confidence = min(0.95, 0.5 + score / 20), in hundredths
ConfidenceCap == 95
ConfidenceBase == 50
ConfidencePerPoint == 5
VisualPhotoConfidence == 60
VisualTimelineConfidence == 50
VisualChartConfidence == 50
VisualDiagramConfidence == 40
FallbackConfidence == 30

\* n / d > t / 100 and the like, for d > 0
RatioGT(n, d, t) == 100 * n > t * d
RatioLT(n, d, t) == 100 * n < t * d
RatioGE(n, d, t) == 100 * n >= t * d
RatioLE(n, d, t) == 100 * n <= t * d

\* The images: width, height, the number of array dimensions (2: single channel),
\* the number of distinct colors, and whether PIL can write the image as PNG.
\* The last one has no rows: its width / height divides by zero.
Images ==
    [w : {10, 14, 16, 24, 30, 40, 50}, h : {20}, ndim : {3},
     unique_colors : {1, 30, 150}, png_ok : BOOLEAN]
    \cup [w : {10, 14, 16, 24, 30, 40, 50}, h : {20}, ndim : {2},
          unique_colors : {0}, png_ok : BOOLEAN]
    \cup {[w |-> 20, h |-> 0, ndim |-> 3, unique_colors |-> 0, png_ok |-> FALSE]}

NoImage == [w |-> 0, h |-> 0, ndim |-> 0, unique_colors |-> 0, png_ok |-> FALSE]

\* what _analyze_image_locally measures on the pixels
EdgeDensities == {10, 20, 25}
Brightnesses == {50, 200, 220}

\* the captions the service may generate
Captions ==
    {"A bar chart comparing sales", "xyz unintelligible", "histogram", "a diagram",
     "blueprint", "a photo of a street map", "Timeline of events", "bars"}

\* What requests.post and the reading of its response may do: raise (timeout,
\* network_error), answer with another status than 200, answer 200 with a body that
\* is no JSON, no list, an empty list, a list whose first entry is no dictionary, has
\* no generated_text, has a null one, or has a caption (possibly empty).
HttpOutcomes ==
    [kind : {"timeout", "network_error", "status", "not_json", "not_list", "empty_list",
             "entry_not_dict", "missing_text", "null_text"}, text : {""}]
    \cup [kind : {"text"}, text : Captions \cup {""}]

NotSent == [kind |-> "not_sent", text |-> ""]

Str(s) == [kind |-> "str", text |-> s]
None == [kind |-> "none", text |-> ""]

\* " ".join(words)
RECURSIVE Join(_)
Join(words) ==
    IF words = <<>> THEN ""
    ELSE IF Len(words) = 1 THEN words[1]
    ELSE words[1] \o " " \o Join(Tail(words))

\* whether width / height or unique_colors / (height * width) divides by zero
DividesByZero(image) ==
    image.h = 0 \/ (image.ndim = 3 /\ image.h * image.w = 0)

\* _analyze_image_locally without the `else: desc.append("image")` of the edge test
_analyze_image_locally_no_else(image, edge, brightness) ==
    IF DividesByZero(image) THEN "visual content"
    ELSE LET colors == IF image.ndim = 3 THEN image.unique_colors ELSE 0
             pixels == image.h * image.w
             edge_density == IF image.ndim = 3 THEN edge ELSE 0
             desc ==
                 (IF RatioGT(image.w, image.h, WideMin) THEN <<"wide">>
                  ELSE IF RatioLT(image.w, image.h, TallMax) THEN <<"tall">>
                  ELSE <<>>)
                 \o (IF RatioGT(colors, pixels, ColorfulMin) THEN <<"colorful">>
                     ELSE IF RatioLT(colors, pixels, SimpleMax) THEN <<"simple">>
                     ELSE <<>>)
                 \o (IF edge_density > DetailedEdgeMin THEN <<"detailed diagram">>
                     ELSE IF edge_density > ChartEdgeMin THEN <<"chart">>
                     ELSE <<>>)
                 \o (IF brightness > BrightMin THEN <<"bright">>
                     ELSE IF brightness < DarkMax THEN <<"dark">>
                     ELSE <<>>)
         IN  IF desc # <<>> THEN Join(desc) ELSE "visual content"

_analyze_image_locally(image, edge, brightness) ==
    IF DividesByZero(image) THEN "visual content"
    ELSE LET colors == IF image.ndim = 3 THEN image.unique_colors ELSE 0
             pixels == image.h * image.w
             edge_density == IF image.ndim = 3 THEN edge ELSE 0
             desc ==
                 (IF RatioGT(image.w, image.h, WideMin) THEN <<"wide">>
                  ELSE IF RatioLT(image.w, image.h, TallMax) THEN <<"tall">>
                  ELSE <<>>)
                 \o (IF RatioGT(colors, pixels, ColorfulMin) THEN <<"colorful">>
                     ELSE IF RatioLT(colors, pixels, SimpleMax) THEN <<"simple">>
                     ELSE <<>>)
                 \o (IF edge_density > DetailedEdgeMin THEN <<"detailed diagram">>
                     ELSE IF edge_density > ChartEdgeMin THEN <<"chart">>
                     ELSE <<"image">>)
                 \o (IF brightness > BrightMin THEN <<"bright">>
                     ELSE IF brightness < DarkMax THEN <<"dark">>
                     ELSE <<>>)
         IN  IF desc # <<>> THEN Join(desc) ELSE "visual content"

\* _get_image_description reading the body of an answer whose status is not 200
_get_image_description_any_status(image, http, edge, brightness) ==
    LET local(posts) == [description |-> Str(_analyze_image_locally(image, edge, brightness)),
                         source |-> "local", posts |-> posts]
        remote(d) == [description |-> d, source |-> "remote", posts |-> 1]
    IN  IF ~image.png_ok THEN local(0)
        ELSE IF http.kind \in {"timeout", "network_error"} THEN local(1)
        ELSE IF http.kind = "status" THEN remote(Str("Service Unavailable"))
        ELSE IF http.kind = "not_json" THEN local(1)
        ELSE IF http.kind \in {"not_list", "empty_list"} THEN local(1)
        ELSE IF http.kind = "entry_not_dict" THEN local(1)
        ELSE IF http.kind = "missing_text" THEN remote(Str(""))
        ELSE IF http.kind = "null_text" THEN remote(None)
        ELSE remote(Str(http.text))

\* _get_image_description: the description, where it came from, and the posts made
_get_image_description(image, http, edge, brightness) ==
    LET local(posts) == [description |-> Str(_analyze_image_locally(image, edge, brightness)),
                         source |-> "local", posts |-> posts]
        remote(d) == [description |-> d, source |-> "remote", posts |-> 1]
    IN  IF ~image.png_ok THEN local(0)
        ELSE IF http.kind \in {"timeout", "network_error"} THEN local(1)
        ELSE IF http.kind = "status" THEN local(1)
        ELSE IF http.kind = "not_json" THEN local(1)
        ELSE IF http.kind \in {"not_list", "empty_list"} THEN local(1)
        ELSE IF http.kind = "entry_not_dict" THEN local(1)
        ELSE IF http.kind = "missing_text" THEN remote(Str(""))
        ELSE IF http.kind = "null_text" THEN remote(None)
        ELSE remote(Str(http.text))

\* sum(len(w) for w in words if w in desc_lower)
RECURSIVE KeywordScore(_, _)
KeywordScore(words, desc_lower) ==
    IF words = <<>> THEN 0
    ELSE (IF Contains(desc_lower, Head(words)) THEN Len(Head(words)) ELSE 0)
         + KeywordScore(Tail(words), desc_lower)

\* the two dictionary comprehensions of _classify_from_description: the categories of
\* positive score, in the order of figure_categories
KeywordScores(desc_lower) ==
    SelectSeq([i \in 1..Len(figure_categories) |->
                  [key |-> figure_categories[i].key,
                   score |-> KeywordScore(figure_categories[i].words, desc_lower)]],
              LAMBDA e : e.score > 0)

VisualBonus(image, key) ==
    (IF /\ RatioGE(image.w, image.h, ChartBandLow)
        /\ RatioLE(image.w, image.h, ChartBandHigh)
        /\ key \in {"bar_chart", "line_graph", "scatter_plot"}
     THEN ChartBandBonus ELSE 0)
    + (IF RatioGT(image.w, image.h, VeryWideMin) /\ key \in {"timeline", "flowchart"}
       THEN VeryWideBonus ELSE 0)
    + (IF image.ndim = 3
       THEN IF RatioGT(image.unique_colors, image.h * image.w, ColorfulMin)
            THEN (IF key \in {"photograph", "infographic", "map"} THEN ColorfulBonus ELSE 0)
            ELSE IF RatioLT(image.unique_colors, image.h * image.w, SimpleMax)
            THEN (IF key \in {"bar_chart", "line_graph"} THEN FlatBonus ELSE 0)
            ELSE 0
       ELSE 0)

\* _enhance_classification_with_analysis adding a very wide image's timeline as a
\* candidate of its own when no keyword put it there
_enhance_classification_creating(image, scores) ==
    IF DividesByZero(image) THEN scores
    ELSE [i \in 1..Len(scores) |->
             [key |-> scores[i].key,
              score |-> scores[i].score + VisualBonus(image, scores[i].key)]]
         \o (IF /\ RatioGT(image.w, image.h, VeryWideMin)
                 /\ \A i \in 1..Len(scores) : scores[i].key # "timeline"
              THEN <<[key |-> "timeline", score |-> VeryWideBonus]>>
              ELSE <<>>)

_enhance_classification_with_analysis(image, scores) ==
    IF DividesByZero(image) THEN scores
    ELSE [i \in 1..Len(scores) |->
             [key |-> scores[i].key,
              score |-> scores[i].score + VisualBonus(image, scores[i].key)]]

\* the last entry of maximal score, as a loop comparing with >= would find
Best_last(enhanced) ==
    LET i == CHOOSE j \in 1..Len(enhanced) :
                 /\ \A k \in 1..Len(enhanced) : enhanced[k].score <= enhanced[j].score
                 /\ \A k \in (j + 1)..Len(enhanced) : enhanced[k].score < enhanced[j].score
    IN  enhanced[i]

\* max(enhanced.items(), key=lambda x: x[1]): the first entry of maximal score
Best(enhanced) ==
    LET i == CHOOSE j \in 1..Len(enhanced) :
                 /\ \A k \in 1..Len(enhanced) : enhanced[k].score <= enhanced[j].score
                 /\ \A k \in 1..(j - 1) : enhanced[k].score < enhanced[j].score
    IN  enhanced[i]

Min(a, b) == IF a <= b THEN a ELSE b

_generate_description(classification, original_description) ==
    LET readable == ReplaceChar(classification, "_", " ")
    IN  IF /\ original_description # ""
           /\ original_description \notin {"visual content", "image with visual elements"}
        THEN Title(readable) \o ". " \o original_description
        ELSE Title(readable)

_extract_visual_elements(description, classification) ==
    LET elements ==
            (IF Contains(classification, "chart") \/ Contains(classification, "graph")
             THEN <<"data visualization", "axes", "labels">>
             ELSE IF Contains(classification, "diagram")
             THEN <<"shapes", "connectors">>
             ELSE IF classification = "photograph"
             THEN <<"real objects", "natural lighting">>
             ELSE <<>>)
            \o (IF description # "" /\ Contains(Lower(description), "text")
                THEN <<"text content">> ELSE <<>>)
            \o (IF description # "" /\ Contains(Lower(description), "color")
                THEN <<"varied colors">> ELSE <<>>)
            \o (IF description # "" /\ Contains(Lower(description), "line")
                THEN <<"linear elements">> ELSE <<>>)
    IN  IF elements # <<>> THEN SubSeq(elements, 1, Min(5, Len(elements)))
        ELSE <<"visual content">>

_fallback_classification ==
    [classification |-> "unknown",
     confidence |-> FallbackConfidence,
     description |-> "Could not classify figure reliably",
     details |-> [visual_elements |-> <<"visual content">>,
                  analysis_method |-> "Fallback classification"],
     reasoning |-> "No meaningful description or features available"]

\* str(n) for n >= 0
RECURSIVE IntStr(_)
IntStr(n) ==
    IF n < 10 THEN CharAt("0123456789", n + 1)
    ELSE IntStr(n \div 10) \o CharAt("0123456789", (n % 10) + 1)

\* f"{w / h:.2f}": two decimals, a tie rounded to even.  (A tie is exact in binary
\* only when h is a power of two; the sizes of Images have none.)
FormatRatio2(w, h) ==
    LET q == (100 * w) \div h
        r == (100 * w) % h
        n == IF 2 * r > h \/ (2 * r = h /\ q % 2 = 1) THEN q + 1 ELSE q
    IN  IntStr(n \div 100) \o "." \o IntStr((n % 100) \div 10) \o IntStr(n % 10)

\* _classify_by_visual_analysis: the dictionary returned and self.confidence_score
_classify_by_visual_analysis(image) ==
    IF DividesByZero(image)
    THEN [result |-> _fallback_classification, confidence_score |-> FallbackConfidence]
    ELSE LET pixels == image.h * image.w
             d == IF image.ndim = 3
                  THEN IF RatioGT(image.unique_colors, pixels, ColorfulMin)
                       THEN [classification |-> "photograph", confidence |-> VisualPhotoConfidence]
                       ELSE IF RatioGT(image.w, image.h, VeryWideMin)
                       THEN [classification |-> "timeline", confidence |-> VisualTimelineConfidence]
                       ELSE IF /\ RatioGE(image.w, image.h, SquareBandLow)
                               /\ RatioLE(image.w, image.h, SquareBandHigh)
                       THEN [classification |-> "chart_other", confidence |-> VisualChartConfidence]
                       ELSE [classification |-> "diagram_other", confidence |-> VisualDiagramConfidence]
                  ELSE [classification |-> "diagram_other", confidence |-> VisualDiagramConfidence]
         IN  [result |->
                 [classification |-> d.classification,
                  confidence |-> d.confidence,
                  description |-> "Visual analysis suggests a "
                                  \o ReplaceChar(d.classification, "_", " "),
                  details |-> [visual_elements |-> <<"visual content">>,
                               analysis_method |-> "Fallback visual analysis"],
                  reasoning |-> "No matching description, classified by aspect ratio "
                                \o FormatRatio2(image.w, image.h)],
              confidence_score |-> d.confidence]

\* _classify_from_description for a description that is a string: the dictionary
\* returned, self.confidence_score, and the branch taken
_classify_from_description(description, image) ==
    LET KeywordResult(best) ==
            [result |->
                [classification |-> best.key,
                 confidence |-> Min(ConfidenceCap, ConfidenceBase + ConfidencePerPoint * best.score),
                 description |-> _generate_description(best.key, description),
                 details |-> [visual_elements |->
                                  _extract_visual_elements(description, best.key),
                              analysis_method |-> "Free local + HuggingFace analysis"],
                 reasoning |-> "Classified as " \o best.key
                               \o " using description '" \o description \o "'"],
             confidence_score |-> Min(ConfidenceCap, ConfidenceBase + ConfidencePerPoint * best.score),
             path |-> "keywords"]
        VisualResult(v) ==
            [result |-> v.result, confidence_score |-> v.confidence_score, path |-> "visual"]
        Decide(enhanced) ==
            IF enhanced # <<>>
            THEN KeywordResult(Best(enhanced))
            ELSE VisualResult(_classify_by_visual_analysis(image))
    IN  Decide(_enhance_classification_with_analysis(image, KeywordScores(Lower(description))))

\* classify_figure after _classify_from_description returned: the type is injected
InjectType(result) ==
    LET classification == IF "classification" \in DOMAIN result
                          THEN result.classification ELSE "unknown"
        glyph == IF classification \in DOMAIN figure_emojis
                 THEN figure_emojis[classification] ELSE "<U+2753>"
    IN  [k \in DOMAIN result \cup {"type", "classification"} |->
            IF k = "type"
            THEN glyph \o " " \o Title(ReplaceChar(classification, "_", " "))
            ELSE IF k = "classification" THEN classification
            ELSE result[k]]

FreeInit ==
    /\ free_pc = "idle"
    /\ free_image = NoImage
    /\ free_http = NotSent
    /\ free_posts = 0
    /\ free_description = None
    /\ free_source = ""
    /\ free_path = ""
    /\ free_result = NoResult
    /\ free_confidence_score = 0

\* classify_figure is called with an image
FreeCall ==
    /\ free_pc = "idle"
    /\ \E image \in Images : free_image' = image
    /\ free_pc' = "describe"
    /\ free_http' = NotSent
    /\ free_posts' = 0
    /\ free_description' = None
    /\ free_source' = ""
    /\ free_path' = ""
    /\ free_result' = NoResult
    /\ UNCHANGED free_confidence_score
    /\ UNCHANGED <<fig_vars, ai_vars>>

\* _get_image_description
FreeDescribe ==
    /\ free_pc = "describe"
    /\ \E http \in HttpOutcomes, edge \in EdgeDensities, brightness \in Brightnesses :
          \E d \in {_get_image_description(free_image, http, edge, brightness)} :
              /\ free_description' = d.description
              /\ free_source' = d.source
              /\ free_posts' = d.posts
              /\ free_http' = IF d.posts = 0 THEN NotSent ELSE http
    /\ free_pc' = "classify"
    /\ UNCHANGED <<free_image, free_path, free_result, free_confidence_score>>
    /\ UNCHANGED <<fig_vars, ai_vars>>

\* _classify_from_description returns
FreeClassify ==
    /\ free_pc = "classify"
    /\ free_description.kind = "str"
    /\ \E r \in {_classify_from_description(free_description.text, free_image)} :
           /\ free_result' = r.result
           /\ free_confidence_score' = r.confidence_score
           /\ free_path' = r.path
    /\ free_pc' = "inject"
    /\ UNCHANGED <<free_image, free_http, free_posts, free_description, free_source>>
    /\ UNCHANGED <<fig_vars, ai_vars>>

\* _classify_from_description raises: description.lower() of a description that is no string
FreeClassifyRaises ==
    /\ free_pc = "classify"
    /\ free_description.kind # "str"
    /\ free_pc' = "except"
    /\ UNCHANGED <<free_image, free_http, free_posts, free_description, free_source,
                   free_path, free_result, free_confidence_score>>
    /\ UNCHANGED <<fig_vars, ai_vars>>

\* classify_figure, the rest of the try block
FreeInject ==
    /\ free_pc = "inject"
    /\ free_result' = InjectType(free_result)
    /\ free_pc' = "done"
    /\ UNCHANGED <<free_image, free_http, free_posts, free_description, free_source,
                   free_path, free_confidence_score>>
    /\ UNCHANGED <<fig_vars, ai_vars>>

\* classify_figure, the except branch
FreeExcept ==
    /\ free_pc = "except"
    /\ free_result' = _fallback_classification
    /\ free_confidence_score' = FallbackConfidence
    /\ free_path' = "failure"
    /\ free_pc' = "done"
    /\ UNCHANGED <<free_image, free_http, free_posts, free_description, free_source>>
    /\ UNCHANGED <<fig_vars, ai_vars>>

\* the caller takes the result
FreeReturn ==
    /\ free_pc = "done"
    /\ free_pc' = "idle"
    /\ free_image' = NoImage
    /\ free_http' = NotSent
    /\ free_posts' = 0
    /\ free_description' = None
    /\ free_source' = ""
    /\ free_path' = ""
    /\ free_result' = NoResult
    /\ UNCHANGED free_confidence_score
    /\ UNCHANGED <<fig_vars, ai_vars>>

----------------------------------------------------------------------------
(* AIFigureClassifier and call_gemini_with_fallback                        *)

\* API_KEYS: the credentials, in the order of the list
API_KEYS == <<"api_key1", "api_key2">>

\* The number of distinct images that PNG can encode.
NumImages == 2

\* The images: those PNG can encode, and one it cannot (a CMYK image), for which
\* image.save(buf, format="PNG") raises.
AIImages ==
    [id : 1..NumImages, png_ok : {TRUE}] \cup {[id |-> 0, png_ok |-> FALSE]}

NoAIImage == [id |-> -1, png_ok |-> FALSE]

\* response.text of a call that succeeds
Texts ==
    {"Bar Chart. Vertical bars on two axes.",
     " This is a photograph of a table. ",
     "Other Diagram: boxes and arrows",
     "Line Graph. Its caption reads: Gemini quota exceeded."}

\* str(e) of an exception of the service that is not ResourceExhausted
ApiErrors == {"500 Internal error", "403 API key not valid"}

CacheMiss == "<miss>"

QuotaMarker == "<U+26A0><U+FE0F> Gemini quota exceeded. Used local analysis."
ErrorMarker(e) == "<U+26A0><U+FE0F> Gemini API error: " \o e

\* confidences of _parse_response and of the degraded result, in hundredths
ParseBarConfidence == 9000
ParseLineConfidence == 9000
ParsePieConfidence == 9000
ParseTimelineConfidence == 6000
ParsePhotoConfidence == 4000
ParseTableConfidence == 7000
ParseChartConfidence == 5000
ParseOtherConfidence == 4000
DegradedConfidence == 3000

\* str.strip() of blanks
RECURSIVE Strip(_)
Strip(s) ==
    IF s = "" THEN ""
    ELSE IF CharAt(s, 1) = " " THEN Strip(SubSeq(s, 2, Len(s)))
    ELSE IF CharAt(s, Len(s)) = " " THEN Strip(SubSeq(s, 1, Len(s) - 1))
    ELSE s

\* s.split(".")[0]
RECURSIVE BeforeDot(_)
BeforeDot(s) ==
    IF s = "" \/ CharAt(s, 1) = "." THEN ""
    ELSE CharAt(s, 1) \o BeforeDot(SubSeq(s, 2, Len(s)))

_parse_response(response) ==
    LET Parsed(stripped, lower_resp) ==
            LET t == IF Contains(lower_resp, "bar chart")
                     THEN [tag |-> "<U+1F4CA> Bar Chart", confidence |-> ParseBarConfidence]
                     ELSE IF Contains(lower_resp, "line graph")
                     THEN [tag |-> "<U+1F4C8> Line Graph", confidence |-> ParseLineConfidence]
                     ELSE IF Contains(lower_resp, "pie chart")
                     THEN [tag |-> "<U+1F7E2> Pie Chart", confidence |-> ParsePieConfidence]
                     ELSE IF Contains(lower_resp, "timeline")
                     THEN [tag |-> "<U+23F0> Timeline", confidence |-> ParseTimelineConfidence]
                     ELSE IF Contains(lower_resp, "photograph") \/ Contains(lower_resp, "photo")
                     THEN [tag |-> "<U+1F4F7> Photograph", confidence |-> ParsePhotoConfidence]
                     ELSE IF Contains(lower_resp, "table")
                     THEN [tag |-> "<U+1F4CB> Table", confidence |-> ParseTableConfidence]
                     ELSE IF Contains(lower_resp, "chart")
                     THEN [tag |-> "<U+1F4CA> Other Chart", confidence |-> ParseChartConfidence]
                     ELSE [tag |-> "<U+1F4D0> Other Diagram", confidence |-> ParseOtherConfidence]
            IN  [type |-> t.tag, confidence |-> t.confidence,
                 description |-> BeforeDot(stripped), reasoning |-> stripped]
        Lowered(stripped) == Parsed(stripped, Lower(stripped))
    IN  Lowered(Strip(response))

\* the test of classify_figure on the response
IsMarker(response) ==
    Contains(response, "Gemini quota exceeded") \/ StartsWith(response, "<U+26A0><U+FE0F> Gemini")

\* classify_figure from the response on
AIResult(response) ==
    IF IsMarker(response)
    THEN [type |-> "<U+1F4D0> Other Diagram",
          confidence |-> DegradedConfidence,
          description |-> "Grayscale content, likely diagram or text",
          reasoning |-> response]
    ELSE _parse_response(response)

AIInit ==
    /\ ai_pc = "idle"
    /\ ai_image = NoAIImage
    /\ ai_key_index = 0
    /\ ai_attempts = <<>>
    /\ ai_response = ""
    /\ ai_result = NoResult
    /\ ai_raised = ""
    /\ gemini_cache = [i \in 1..NumImages |-> CacheMiss]

\* classify_figure is called with an image
AICall ==
    /\ ai_pc = "idle"
    /\ \E image \in AIImages : ai_image' = image
    /\ ai_pc' = "encode"
    /\ ai_key_index' = 0
    /\ ai_attempts' = <<>>
    /\ ai_response' = ""
    /\ ai_result' = NoResult
    /\ ai_raised' = ""
    /\ UNCHANGED gemini_cache
    /\ UNCHANGED <<fig_vars, free_vars>>

\* _image_to_bytes and get_image_hash return
AIEncode ==
    /\ ai_pc = "encode"
    /\ ai_image.png_ok
    /\ ai_pc' = "lookup"
    /\ UNCHANGED <<ai_image, ai_key_index, ai_attempts, ai_response, ai_result,
                   ai_raised, gemini_cache>>
    /\ UNCHANGED <<fig_vars, free_vars>>

\* _image_to_bytes raises; classify_figure has no handler, the caller gets the exception
AIEncodeRaises ==
    /\ ai_pc = "encode"
    /\ ~ai_image.png_ok
    /\ ai_raised' = "cannot write mode CMYK as PNG"
    /\ ai_pc' = "raised"
    /\ UNCHANGED <<ai_image, ai_key_index, ai_attempts, ai_response, ai_result, gemini_cache>>
    /\ UNCHANGED <<fig_vars, free_vars>>

\* st.cache_data: the result of an earlier call with these arguments is returned
AICacheHit ==
    /\ ai_pc = "lookup"
    /\ gemini_cache[ai_image.id] # CacheMiss
    /\ ai_response' = gemini_cache[ai_image.id]
    /\ ai_pc' = "respond"
    /\ UNCHANGED <<ai_image, ai_key_index, ai_attempts, ai_result, ai_raised, gemini_cache>>
    /\ UNCHANGED <<fig_vars, free_vars>>

\* st.cache_data: no earlier result, the body of call_gemini_with_fallback runs
AICacheMiss ==
    /\ ai_pc = "lookup"
    /\ gemini_cache[ai_image.id] = CacheMiss
    /\ ai_key_index' = 1
    /\ ai_pc' = "try"
    /\ UNCHANGED <<ai_image, ai_attempts, ai_response, ai_result, ai_raised, gemini_cache>>
    /\ UNCHANGED <<fig_vars, free_vars>>

\* the value call_gemini_with_fallback returns is cached and handed to classify_figure
Returned(response) ==
    /\ ai_response' = response
    /\ gemini_cache' = [gemini_cache EXCEPT ![ai_image.id] = response]
    /\ ai_pc' = "respond"

\* the loop body: generate_content returns
AITrySucceeds ==
    /\ ai_pc = "try"
    /\ ai_key_index <= Len(API_KEYS)
    /\ \E text \in Texts :
          /\ ai_attempts' = Append(ai_attempts,
                                   [key |-> API_KEYS[ai_key_index], outcome |-> "ok", text |-> text])
          /\ Returned(text)
    /\ UNCHANGED <<ai_image, ai_key_index, ai_result, ai_raised>>
    /\ UNCHANGED <<fig_vars, free_vars>>

\* the loop body: ResourceExhausted, continue
AITryQuota ==
    /\ ai_pc = "try"
    /\ ai_key_index <= Len(API_KEYS)
    /\ ai_attempts' = Append(ai_attempts,
                             [key |-> API_KEYS[ai_key_index], outcome |-> "quota", text |-> ""])
    /\ ai_key_index' = ai_key_index + 1
    /\ UNCHANGED <<ai_pc, ai_image, ai_response, ai_result, ai_raised, gemini_cache>>
    /\ UNCHANGED <<fig_vars, free_vars>>

\* the loop body: another exception
AITryFails ==
    /\ ai_pc = "try"
    /\ ai_key_index <= Len(API_KEYS)
    /\ \E e \in ApiErrors :
          /\ ai_attempts' = Append(ai_attempts,
                                   [key |-> API_KEYS[ai_key_index], outcome |-> "error", text |-> e])
          /\ Returned(ErrorMarker(e))
    /\ UNCHANGED <<ai_image, ai_key_index, ai_result, ai_raised>>
    /\ UNCHANGED <<fig_vars, free_vars>>

\* the loop ends: every credential was exhausted
AIExhausted ==
    /\ ai_pc = "try"
    /\ ai_key_index > Len(API_KEYS)
    /\ Returned(QuotaMarker)
    /\ UNCHANGED <<ai_image, ai_key_index, ai_attempts, ai_result, ai_raised>>
    /\ UNCHANGED <<fig_vars, free_vars>>

\* classify_figure from the response on
AIRespond ==
    /\ ai_pc = "respond"
    /\ ai_result' = AIResult(ai_response)
    /\ ai_pc' = "done"
    /\ UNCHANGED <<ai_image, ai_key_index, ai_attempts, ai_response, ai_raised, gemini_cache>>
    /\ UNCHANGED <<fig_vars, free_vars>>

\* the caller takes the result, or the exception
AIReturn ==
    /\ ai_pc \in {"done", "raised"}
    /\ ai_pc' = "idle"
    /\ ai_image' = NoAIImage
    /\ ai_key_index' = 0
    /\ ai_attempts' = <<>>
    /\ ai_response' = ""
    /\ ai_result' = NoResult
    /\ ai_raised' = ""
    /\ UNCHANGED gemini_cache
    /\ UNCHANGED <<fig_vars, free_vars>>

----------------------------------------------------------------------------
(* Specifications                                                          *)

Init == FigInit /\ FreeInit /\ AIInit

\* one caller of a FigureClassifier
Next ==
    \/ FigExtract(1)
    \/ FigExtractRaises(1)
    \/ FigRuleBaseline(1)
    \/ FigRuleDecide(1)
    \/ FigProbeRaises(1)
    \/ FigBuild(1)
    \/ FigExcept(1)
    \/ FigReturn(1)

Spec == Init /\ [][Next]_vars

\* several callers of one FigureClassifier instance, their calls interleaved
NextShared ==
    \/ \E c \in Callers : FigExtractFrom(c, SharedInstanceVectors)
    \/ \E c \in Callers : FigExtractRaises(c)
    \/ \E c \in Callers : FigRuleBaseline(c)
    \/ \E c \in Callers : FigRuleDecide(c)
    \/ \E c \in Callers : FigProbeRaises(c)
    \/ \E c \in Callers : FigBuild(c)
    \/ \E c \in Callers : FigExcept(c)
    \/ \E c \in Callers : FigReturn(c)

SpecShared == Init /\ [][NextShared]_vars

\* one caller of a FreeFigureClassifier
NextFree ==
    \/ FreeCall
    \/ FreeDescribe
    \/ FreeClassify
    \/ FreeClassifyRaises
    \/ FreeInject
    \/ FreeExcept
    \/ FreeReturn

SpecFree == Init /\ [][NextFree]_vars

\* one caller of an AIFigureClassifier
NextAI ==
    \/ AICall
    \/ AIEncode
    \/ AIEncodeRaises
    \/ AICacheHit
    \/ AICacheMiss
    \/ AITrySucceeds
    \/ AITryQuota
    \/ AITryFails
    \/ AIExhausted
    \/ AIRespond
    \/ AIReturn

SpecAI == Init /\ [][NextAI]_vars

----------------------------------------------------------------------------
(* Claims                                                                  *)

\* The decision list as the specification numbers it: whether rule n matches, its
\* category, and its confidence in hundredths.  Rule 10 is the default.
RuleMatches(n, f, probe) ==
    CASE n = 1 -> f.circle_ratio > 30
      [] n = 2 -> f.rectangle_ratio > 40 /\ f.text_ratio < 30
      [] n = 3 -> f.line_density > 30 /\ f.rectangle_ratio < 20
      [] n = 4 -> f.text_ratio > 40
      [] n = 5 -> f.edge_density > 20 /\ f.rectangle_ratio > 20
      [] n = 6 -> f.edge_density < 10 /\ f.color_diversity > 10
      [] n = 7 -> f.symmetry_horizontal > 70 \/ f.symmetry_vertical > 70
      [] n = 8 -> probe = "hit"
      [] n = 9 -> /\ f.color_diversity > 5
                  /\ 10 < f.edge_density /\ f.edge_density < 30
                  /\ f.symmetry_horizontal < 30 /\ f.symmetry_vertical < 30
      [] OTHER -> TRUE

RuleCategory ==
    <<"pie_chart", "bar_chart", "line_graph", "table", "flowchart", "photograph",
      "scientific_diagram", "scatter_plot", "map", "diagram">>

RuleConfidence == <<80, 70, 70, 60, 60, 60, 60, 70, 60, 40>>

LowestMatchingRule(f, probe) ==
    CHOOSE n \in 1..10 :
        /\ RuleMatches(n, f, probe)
        /\ \A k \in 1..(n - 1) : ~RuleMatches(k, f, probe)

\* C1: whenever classify_figure of FigureClassifier has built its result without an
\* exception, the category is the one of the lowest-numbered matching rule of the
\* ordered list, the confidence reported is that rule's confidence times 100, and it
\* is not the baseline 50; a vector matching rules 1 and 2 gives pie_chart with 80.
C1_FirstMatchWins ==
    \A c \in Callers :
        (fig_pc[c] = "done" /\ fig_error[c] = "") =>
            LET n == LowestMatchingRule(fig_features[c], fig_probe[c])
            IN  /\ fig_category[c] = RuleCategory[n]
                /\ fig_result[c].type = _map_to_label(RuleCategory[n])
                /\ fig_result[c].confidence = 100 * RuleConfidence[n]
                /\ fig_result[c].confidence # 5000
                /\ (RuleMatches(1, fig_features[c], fig_probe[c])
                    /\ RuleMatches(2, fig_features[c], fig_probe[c]))
                       => (fig_category[c] = "pie_chart" /\ fig_result[c].confidence = 8000)

\* C1 witness: a call has returned for a vector that matches rule 1 and rule 2.
C1_Witness ==
    /\ fig_pc[1] = "done"
    /\ fig_error[1] = ""
    /\ fig_features[1].circle_ratio = 31
    /\ fig_features[1].rectangle_ratio = 41
    /\ fig_features[1].text_ratio = 29
    /\ fig_category[1] = "pie_chart"
    /\ fig_result[1].confidence = 8000

\* C2: classify_figure of FigureClassifier never lets an exception through: once
\* _extract_features or the rule evaluation has raised, the call goes on to return
\* the degraded result: type Other Diagram, confidence 30.0, a description holding
\* "likely diagram or text", and a reasoning that holds the text of the exception.
C2_ExceptionBecomesDegradedResult ==
    \A c \in Callers :
        /\ fig_pc[c] # "raised"
        /\ fig_error[c] # "" => fig_pc[c] \in {"except", "done"}
        /\ (fig_pc[c] = "done" /\ fig_error[c] # "") =>
              /\ DOMAIN fig_result[c] = {"type", "confidence", "description", "reasoning"}
              /\ fig_result[c].type = "<U+1F4D0> Other Diagram"
              /\ fig_result[c].confidence = 3000
              /\ Contains(fig_result[c].description, "likely diagram or text")
              /\ Contains(fig_result[c].reasoning, fig_error[c])

\* C2 witness: the scatter-plot probe raised during rule evaluation and the call has
\* returned the degraded result.
C2_Witness ==
    /\ fig_pc[1] = "done"
    /\ fig_probe[1] = "raise"
    /\ fig_error[1] = "division by zero"
    /\ fig_result[1].confidence = 3000

\* The fields of the public contract.
ContractFields == {"type", "confidence", "description", "reasoning"}

\* C3: every dictionary classify_figure returns, from FigureClassifier and from
\* FreeFigureClassifier, on every path, has the fields type, confidence, description
\* and reasoning.
C3_ResultHasContractFields ==
    /\ \A c \in Callers : fig_pc[c] = "done" => ContractFields \subseteq DOMAIN fig_result[c]
    /\ free_pc = "done" => ContractFields \subseteq DOMAIN free_result

\* C4: the confidence returned is on the 0-100 scale in both classifiers: it is the
\* instance's confidence_score times 100, a FigureClassifier failure reports 30.0, its
\* default rule 40.0, and the unknown result of FreeFigureClassifier reports 30.0.
C4_SharedConfidenceScale ==
    /\ \A c \in Callers :
          /\ (fig_pc[c] = "done" /\ fig_error[c] # "") => fig_result[c].confidence = 3000
          /\ (fig_pc[c] = "done" /\ fig_error[c] = "" /\ fig_category[c] = "diagram")
                => fig_result[c].confidence = 4000
    /\ free_pc = "done" =>
          /\ free_result.confidence = 100 * free_confidence_score
          /\ free_result.classification = "unknown" => free_result.confidence = 3000

\* The category keys both classifiers can produce.
SharedCategories ==
    {"bar_chart", "pie_chart", "line_graph", "table", "flowchart", "photograph",
     "scientific_diagram", "scatter_plot", "map", "timeline"}

\* C5: when FreeFigureClassifier returns a category that FigureClassifier has as
\* well, the type string is the one FigureClassifier renders for that category.
C5_SameTypeString ==
    (/\ free_pc = "done"
     /\ "type" \in DOMAIN free_result
     /\ free_result.classification \in SharedCategories)
        => free_result.type = _map_to_label(free_result.classification)

\* The score the specification gives category i for a caption: the lengths of the
\* keywords of the category found in the caption, case ignored, added up.
RECURSIVE SumOfLengths(_)
SumOfLengths(S) ==
    IF S = {} THEN 0
    ELSE LET j == CHOOSE k \in S : TRUE
         IN  j[2] + SumOfLengths(S \ {j})

CaptionScore(i, caption) ==
    SumOfLengths({<<j, Len(figure_categories[i].words[j])>> :
                    j \in {k \in 1..Len(figure_categories[i].words) :
                             Contains(Lower(caption), Lower(figure_categories[i].words[k]))}})

\* The bonus the specification gives a category for an image.  The aspect ratio is
\* width / height; the color diversity is distinct colors / pixels, and 0 for an image
\* of a single channel.  An image without pixels has neither.
CaptionBonus(key, image) ==
    LET measurable == image.h > 0 /\ image.w > 0
        pixels == image.h * image.w
        colors == IF image.ndim = 3 THEN image.unique_colors ELSE 0
    IN  (IF /\ measurable
            /\ 8 * image.h <= 10 * image.w /\ 10 * image.w <= 15 * image.h
            /\ key \in {"bar_chart", "line_graph", "scatter_plot"} THEN 5 ELSE 0)
        + (IF measurable /\ image.w > 2 * image.h /\ key \in {"timeline", "flowchart"}
           THEN 8 ELSE 0)
        + (IF measurable /\ 10 * colors > pixels
              /\ key \in {"photograph", "infographic", "map"} THEN 6 ELSE 0)
        + (IF measurable /\ 100 * colors < pixels
              /\ key \in {"bar_chart", "line_graph"} THEN 4 ELSE 0)

\* C6: when a caption has a keyword match, the category returned is a category of
\* positive keyword score whose score plus bonuses is maximal among the categories of
\* positive keyword score, and the confidence is min(0.95, 0.5 + that sum / 20); for
\* "A bar chart comparing sales" without a bonus it is bar_chart, score 9, 0.95.
C6_KeywordScoring ==
    (free_pc \in {"inject", "done"} /\ free_path = "keywords") =>
        LET caption == free_description.text
            Holds(score) ==
                LET survivors == {i \in DOMAIN score : score[i] > 0}
                    adjusted(i) == score[i] + CaptionBonus(figure_categories[i].key, free_image)
                IN  /\ \E i \in survivors :
                          /\ figure_categories[i].key = free_result.classification
                          /\ \A j \in survivors : adjusted(j) <= adjusted(i)
                          /\ free_result.confidence = Min(95, 50 + 5 * adjusted(i))
                    /\ (/\ caption = "A bar chart comparing sales"
                        /\ \A j \in survivors : adjusted(j) = score[j])
                           => /\ free_result.classification = "bar_chart"
                              /\ score[1] = 9
                              /\ free_result.confidence = 95
        IN  Holds([i \in 1..Len(figure_categories) |-> CaptionScore(i, caption)])

\* Whether some keyword of some category occurs in the caption, case ignored.
HasKeywordMatch(caption) ==
    \E i \in 1..Len(figure_categories) :
        \E j \in 1..Len(figure_categories[i].words) :
            Contains(Lower(caption), figure_categories[i].words[j])

\* The closed enumeration of categories.
CategoryEnum ==
    {"bar_chart", "pie_chart", "line_graph", "table", "flowchart", "photograph",
     "scientific_diagram", "scatter_plot", "map", "diagram", "histogram", "box_plot",
     "heatmap", "organizational_chart", "network_diagram", "medical_diagram",
     "engineering_diagram", "floor_plan", "timeline", "infographic", "screenshot",
     "logo", "chart_other", "diagram_other", "unknown"}

\* C7: FreeFigureClassifier takes the visual-only fallback exactly when the caption
\* has no keyword match, and every result it returns, on that path and on the others,
\* is a dictionary with a category of the closed enumeration, a confidence, a
\* description and a reasoning, none of them empty.
C7_VisualFallbackExactlyWhenNoMatch ==
    /\ (free_pc \in {"inject", "done"} /\ free_description.kind = "str") =>
          (free_path = "visual" <=> ~HasKeywordMatch(free_description.text))
    /\ free_pc = "done" =>
          /\ {"classification", "confidence", "description", "reasoning"}
                \subseteq DOMAIN free_result
          /\ free_result.classification \in CategoryEnum
          /\ free_result.confidence > 0
          /\ free_result.description # ""
          /\ free_result.reasoning # ""

\* C7 witness: the unmatched caption of the specification went through the visual
\* fallback of a very wide color image and came back as a timeline.
C7_Witness ==
    /\ free_pc = "done"
    /\ free_description = Str("xyz unintelligible")
    /\ free_path = "visual"
    /\ free_image.w = 50
    /\ free_result.classification = "timeline"

\* C8: after a timeout, a network error or a status other than 200 of the captioning
\* call, the description is the caption synthesized locally for the image, whatever the
\* failure was; the call then scores keywords and returns a dictionary; no call of
\* classify_figure posts to the service more than once, and none raises.
C8_ServiceFailureHandledLocally ==
    /\ free_posts <= 1
    /\ free_pc # "raised"
    /\ (free_http.kind \in {"timeout", "network_error", "status"}
        /\ free_pc \in {"classify", "inject", "done"}) =>
          /\ free_source = "local"
          /\ free_posts = 1
          /\ free_description.kind = "str"
          /\ \E edge \in EdgeDensities, brightness \in Brightnesses :
                free_description.text = _analyze_image_locally(free_image, edge, brightness)
          /\ free_pc \in {"inject", "done"} => free_path \in {"keywords", "visual"}
          /\ free_pc = "done" => ContractFields \subseteq DOMAIN free_result

\* C8 witness: the call timed out and classify_figure returned a result built from
\* the local caption.
C8_Witness ==
    /\ free_pc = "done"
    /\ free_http.kind = "timeout"
    /\ free_source = "local"
    /\ free_description = Str("wide simple chart dark")
    /\ "type" \in DOMAIN free_result

\* C9: the description handed to _classify_from_description is never empty.
C9_DescriptionNeverEmpty ==
    free_pc \in {"classify", "inject", "except", "done"} =>
        (free_description.kind = "str" /\ free_description.text # "")

\* C10: call_gemini_with_fallback tries the credentials in the order of the list, the
\* next one only after a quota failure of the one before, stops at the first success
\* or other error, returns the text of the success, a marker otherwise;
\* classify_figure returns the degraded result for a marker, and never raises.
C10_CredentialFallback ==
    /\ \A i \in 1..Len(ai_attempts) :
          /\ i <= Len(API_KEYS)
          /\ ai_attempts[i].key = API_KEYS[i]
          /\ i < Len(ai_attempts) => ai_attempts[i].outcome = "quota"
    /\ (ai_pc \in {"respond", "done"} /\ ai_attempts # <<>>) =>
          LET last == ai_attempts[Len(ai_attempts)]
          IN  /\ last.outcome = "ok" => ai_response = last.text
              /\ last.outcome = "error" => ai_response = ErrorMarker(last.text)
              /\ last.outcome = "quota" =>
                    (Len(ai_attempts) = Len(API_KEYS) /\ ai_response = QuotaMarker)
    /\ (ai_pc = "done" /\ (ai_response = QuotaMarker
                           \/ \E e \in ApiErrors : ai_response = ErrorMarker(e))) =>
          /\ ai_result.type = "<U+1F4D0> Other Diagram"
          /\ ai_result.confidence = 3000
          /\ ai_result.reasoning = ai_response
    /\ ai_pc # "raised"

\* C11: the category and the confidence a call of FigureClassifier.classify_figure
\* returns are the ones the rules give for the call's own feature vector and probe
\* outcome, whatever other calls ran before it or run interleaved with it on the
\* same instance.
C11_OwnImageDecides ==
    \A c \in Callers :
        (fig_pc[c] = "done" /\ fig_error[c] = "") =>
            LET own == _rule_based_classification(fig_features[c], fig_probe[c])
            IN  /\ fig_result[c] = FigureResult(own.category, own.confidence_score)
                /\ fig_result[c].confidence = 100 * own.confidence_score

\* The decision list the specification gives for the visual-only fallback: the
\* color diversity is distinct colors / pixels, the aspect ratio width / height.
VisualRule(image) ==
    LET pixels == image.h * image.w
    IN  IF 10 * image.unique_colors > pixels
            THEN [classification |-> "photograph", confidence |-> 60]
        ELSE IF image.w > 2 * image.h
            THEN [classification |-> "timeline", confidence |-> 50]
        ELSE IF 8 * image.h <= 10 * image.w /\ 10 * image.w <= 12 * image.h
            THEN [classification |-> "chart_other", confidence |-> 50]
        ELSE [classification |-> "diagram_other", confidence |-> 40]

\* C12: whenever _classify_by_visual_analysis has decided the result of a call, for
\* an image with three dimensions or with two, the category and the confidence are
\* those of the first matching line of: diversity > 0.1 photograph 0.6, aspect > 2
\* timeline 0.5, 0.8 <= aspect <= 1.2 chart_other 0.5, otherwise diagram_other 0.4.
C12_VisualDecisionList ==
    (free_pc \in {"inject", "done"} /\ free_path = "visual") =>
        /\ free_result.classification = VisualRule(free_image).classification
        /\ free_result.confidence = VisualRule(free_image).confidence

\* C12 restricted to the arrays that have a channel axis.
C12_ColorImagesOnly ==
    (free_pc \in {"inject", "done"} /\ free_path = "visual" /\ free_image.ndim = 3) =>
        /\ free_result.classification = VisualRule(free_image).classification
        /\ free_result.confidence = VisualRule(free_image).confidence

\* The categories a locally synthesized caption can be given.
LocalCaptionCategories ==
    {"flowchart", "diagram_other", "chart_other", "photograph", "infographic"}

\* C13: whenever the caption of a call was synthesized locally, as it is after a
\* timeout, a network error or a status other than 200, the caption has a keyword
\* match, the call takes neither the visual-only fallback nor the unknown result, and
\* it returns flowchart, diagram_other, chart_other, photograph or infographic with
\* a confidence of at least 0.75.
C13_LocalCaptionAlwaysMatches ==
    /\ (free_http.kind \in {"timeout", "network_error", "status"}
        /\ free_pc \in {"classify", "inject", "except", "done"}) => free_source = "local"
    /\ (free_source = "local" /\ free_pc \in {"classify", "inject", "except", "done"}) =>
          /\ free_description.kind = "str"
          /\ HasKeywordMatch(free_description.text)
          /\ free_pc # "except"
    /\ (free_source = "local" /\ free_pc \in {"inject", "done"}) =>
          /\ free_path = "keywords"
          /\ free_result.classification \in LocalCaptionCategories
          /\ free_result.confidence >= 75

\* C13 witness: the service answered with another status than 200, the caption
\* synthesized for a tall, colorful, detailed, bright image was classified, and the
\* call returned flowchart.
C13_Witness ==
    /\ free_pc = "done"
    /\ free_http.kind = "status"
    /\ free_description = Str("tall colorful detailed diagram bright")
    /\ free_path = "keywords"
    /\ free_result.classification = "flowchart"
    /\ free_result.confidence = 85

\* The position of a category key in the keyword table.
TableIndex(key) == CHOOSE i \in 1..Len(figure_categories) : figure_categories[i].key = key

\* C14: on the keyword path the category returned is, among the categories of
\* positive keyword score whose score plus bonuses is maximal, the one listed first in
\* the keyword table; so "histogram" gives bar_chart and not histogram, "a diagram"
\* gives flowchart and not diagram_other, "blueprint" gives engineering_diagram and
\* not floor_plan.
C14_EarliestListedWinsTies ==
    (free_pc \in {"inject", "done"} /\ free_path = "keywords") =>
        LET caption == free_description.text
            Holds(score) ==
                LET survivors == {i \in DOMAIN score : score[i] > 0}
                    adjusted(i) == score[i] + CaptionBonus(figure_categories[i].key, free_image)
                    maximal == {i \in survivors : \A j \in survivors : adjusted(j) <= adjusted(i)}
                    winner == TableIndex(free_result.classification)
                IN  /\ winner \in maximal
                    /\ \A i \in maximal : winner <= i
                    /\ caption = "histogram" => free_result.classification = "bar_chart"
                    /\ caption = "a diagram" => free_result.classification = "flowchart"
                    /\ caption = "blueprint" => free_result.classification = "engineering_diagram"
        IN  Holds([i \in 1..Len(figure_categories) |-> CaptionScore(i, caption)])

\* C14 witness: the caption "blueprint", whose one keyword engineering_diagram and
\* floor_plan share with no bonus for either, was classified as engineering_diagram.
C14_Witness ==
    /\ free_pc = "done"
    /\ free_path = "keywords"
    /\ free_description = Str("blueprint")
    /\ CaptionScore(TableIndex("engineering_diagram"), "blueprint")
          = CaptionScore(TableIndex("floor_plan"), "blueprint")
    /\ free_result.classification = "engineering_diagram"

====
